---- MODULE Spec2Model ----
(***************************************************************************)
(* ship_frame: a graph of beams joining vertices.                          *)
(*                                                                         *)
(* These machines share this module, selected by the variable `variant`:    *)
(*   "graph"  the identity-keyed Graph of src/src/graph.rs with its        *)
(*            snapshot conversions of src/src/messages.rs;                 *)
(*   "frame"  the arena FrameGraph of src/src/lib.rs;                      *)
(*   "repl"   the server ShipFrame of src/src/server.rs feeding a client   *)
(*            ShipFrame of src/src/client.rs;                              *)
(*   "convert" the conversion of any SerializedGraph into a Graph;         *)
(*   "remap"  the allocator FrameIdWorld of src/src/server.rs issuing ids  *)
(*            and remapping graph fragments with map_frame;                *)
(*   "search" the search loop of FrameGraph::try_split, one turn at a      *)
(*            time.                                                        *)
(* A panic ends the run of the machine it happens in: the state it leaves  *)
(* behind is kept (it is what an unwinding caller would observe) and no    *)
(* further operation is applied to it.                                     *)
(*                                                                         *)
(* Positions are Vec3 points taken on the x axis, so that the Euclidean    *)
(* distance of two positions is the absolute difference of two integers.   *)
(***************************************************************************)
EXTENDS Integers, Sequences, FiniteSets, TLC

VARIABLES
    variant,      \* which machine this behaviour runs
    graph,        \* Graph<B>: the graph under edit ("graph")
    last,         \* the last call: its arguments and its outcome
    added_to,     \* after a successful add_beam: the graph it was given
    snapshot,     \* SerializedGraph taken of `graph`, or None
    restored,     \* Graph rebuilt from `snapshot`, or None
    fg,           \* FrameGraph under edit ("frame")
    flast,        \* the last FrameGraph call and its outcome
    search,       \* the locals of a try_split call in progress ("search")
    server,       \* server::ShipFrame.graph ("repl")
    next_id,      \* FrameIdWorld.next_id
    wire,         \* messages emitted by the server, not yet applied
    client,       \* client::ShipFrame.graph, or None before ShipFrame::new
    mirror_of,    \* the server graph the client is due to equal
    rlast,        \* the last call of the replication machine
    issued,       \* the VertexIds FrameIdWorld::next returned, in order
    remap         \* the last map_frame call: its fragment and its frame

vars == <<variant, graph, last, added_to, snapshot, restored,
          fg, flast, search, server, next_id, wire, client, mirror_of, rlast,
          issued, remap>>

graphVars == <<graph, last, added_to, snapshot, restored>>
frameVars == <<fg, flast, search>>
replVars == <<server, next_id, wire, client, mirror_of, rlast, issued,
              remap>>

----------------------------------------------------------------------------
(* Bounds of the model. *)

MaxVertexId == 2        \* Graph machine: vertex ids are 0..MaxVertexId
MaxPos == 1             \* positions are 0..MaxPos on the x axis
MaxData == 1            \* beam payloads are 0..MaxData
MaxBeams == 3           \* Graph machine: at most this many beams stored

VertexIds == 0..MaxVertexId
Positions == 0..MaxPos
Payloads == 0..MaxData

\* Option<T>: None, or Some(x) holding x.
None == <<>>
Some(x) == <<x>>
Unwrap(option) == option[1]
OptPositions == {Some(p) : p \in Positions} \cup {None}

Down == "Down"
Up == "Up"

----------------------------------------------------------------------------
(* Outcomes of a call. *)

Ok == "ok"
PanicSelfLoop == "Tried to insert a beam between a vertex and itself."
PanicVertexTwice == "Tried to insert a vertex twice."
PanicVertexMissing == "Tried to connect a beam to a vertex that doesn't exist."
PanicBeamTwice == "Tried to insert a beam twice."
PanicBeamMissing == "Tried to remove a beam that doesn't exist."
PanicVertexShouldExist == "Vertex should exist if beam exists."
PanicConnectionShouldExist == "Vertex should have a connection to the beam."
PanicInvalidSnapshot == "Invalid serialized graph structure."

----------------------------------------------------------------------------
(* BeamId of the identity-keyed variant: the pair (down, up) of its vertex *)
(* ids, down being the smaller.                                            *)

BeamId_from_vertices(a, b) == IF a < b THEN <<a, b>> ELSE <<b, a>>

down_vertex(beam) == beam[1]

up_vertex(beam) == beam[2]

----------------------------------------------------------------------------
(* IndexMap and Vec primitives.  An IndexMap is the sequence of its        *)
(* entries in insertion order, each entry a record with an `id` field.     *)

IndexOf(entries, id) ==
    IF \E i \in 1..Len(entries) : entries[i].id = id
    THEN CHOOSE i \in 1..Len(entries) :
            /\ entries[i].id = id
            /\ \A j \in 1..(i - 1) : entries[j].id # id
    ELSE 0

ContainsKey(entries, id) == IndexOf(entries, id) # 0

Keys(entries) == {entries[i].id : i \in 1..Len(entries)}

Get(entries, id) == entries[IndexOf(entries, id)]

\* IndexMap::swap_remove at a known index: the last entry takes the hole.
swap_remove_index(entries, i) ==
    LET n == Len(entries) IN
    IF i = n THEN SubSeq(entries, 1, n - 1)
    ELSE [j \in 1..(n - 1) |-> IF j = i THEN entries[n] ELSE entries[j]]

\* Vec::remove: the tail shifts left.
vec_remove(seq, i) == SubSeq(seq, 1, i - 1) \o SubSeq(seq, i + 1, Len(seq))

EmptyGraph == [vertices |-> <<>>, beams |-> <<>>]

BeamEnd(beam_id, beam_end) == [beam_id |-> beam_id, beam_end |-> beam_end]

----------------------------------------------------------------------------
(* Graph::add_beam *)

\* add_beam_end that forgets to push the connection onto a vertex already
\* in the graph.
add_beam_end_no_push(vertices, id, position, end) ==
    IF position # None
    THEN IF ContainsKey(vertices, id)
         THEN [vertices |-> [vertices EXCEPT ![IndexOf(vertices, id)] =
                               [id |-> id, position |-> Unwrap(position),
                                connections |-> <<end>>]],
               res |-> PanicVertexTwice]
         ELSE [vertices |-> Append(vertices,
                               [id |-> id, position |-> Unwrap(position),
                                connections |-> <<end>>]),
               res |-> Ok]
    ELSE IF ~ContainsKey(vertices, id)
         THEN [vertices |-> vertices, res |-> PanicVertexMissing]
         ELSE [vertices |-> vertices, res |-> Ok]

\* One turn of the loop over the two ends (graph.rs 51-72).
add_beam_end(vertices, id, position, end) ==
    IF position # None
    THEN IF ContainsKey(vertices, id)
         THEN \* IndexMap::insert replaced the entry before the panic
              [vertices |-> [vertices EXCEPT ![IndexOf(vertices, id)] =
                               [id |-> id, position |-> Unwrap(position),
                                connections |-> <<end>>]],
               res |-> PanicVertexTwice]
         ELSE [vertices |-> Append(vertices,
                               [id |-> id, position |-> Unwrap(position),
                                connections |-> <<end>>]),
               res |-> Ok]
    ELSE IF ~ContainsKey(vertices, id)
         THEN [vertices |-> vertices, res |-> PanicVertexMissing]
         ELSE [vertices |-> [vertices EXCEPT
                               ![IndexOf(vertices, id)].connections =
                                   Append(@, end)],
               res |-> Ok]

\* add_beam_insert that lets a second beam of the same id replace the first.
add_beam_insert_replacing(beams, beam_id, beam_data) ==
    IF ContainsKey(beams, beam_id)
    THEN [beams |-> [beams EXCEPT ![IndexOf(beams, beam_id)].data = beam_data],
          res |-> Ok]
    ELSE [beams |-> Append(beams, [id |-> beam_id, data |-> beam_data]),
          res |-> Ok]

\* The final insertion into the beam table (graph.rs 74-76).
add_beam_insert(beams, beam_id, beam_data) ==
    IF ContainsKey(beams, beam_id)
    THEN [beams |-> [beams EXCEPT ![IndexOf(beams, beam_id)].data = beam_data],
          res |-> PanicBeamTwice]
    ELSE [beams |-> Append(beams, [id |-> beam_id, data |-> beam_data]),
          res |-> Ok]

add_beam(g, vertex_a, position_a, vertex_b, position_b, beam_data) ==
    IF vertex_a = vertex_b
    THEN [g |-> g, res |-> PanicSelfLoop, beam |-> None]
    ELSE
      LET swap == vertex_a > vertex_b
          down_id == IF swap THEN vertex_b ELSE vertex_a
          down_position == IF swap THEN position_b ELSE position_a
          up_id == IF swap THEN vertex_a ELSE vertex_b
          up_position == IF swap THEN position_a ELSE position_b
          beam_id == BeamId_from_vertices(down_id, up_id)
          s1 == add_beam_end(g.vertices, down_id, down_position,
                             BeamEnd(beam_id, Down))
          s2 == IF s1.res = Ok
                THEN add_beam_end(s1.vertices, up_id, up_position,
                                  BeamEnd(beam_id, Up))
                ELSE s1
          s3 == add_beam_insert(g.beams, beam_id, beam_data)
      IN IF s2.res # Ok
         THEN [g |-> [vertices |-> s2.vertices, beams |-> g.beams],
               res |-> s2.res, beam |-> Some(beam_id)]
         ELSE [g |-> [vertices |-> s2.vertices, beams |-> s3.beams],
               res |-> s3.res, beam |-> Some(beam_id)]

----------------------------------------------------------------------------
(* Graph::remove_beam *)

\* connection_position that answers the front of the list whenever the beam
\* is connected.
connection_position_front(connections, beam) ==
    IF \E i \in 1..Len(connections) : connections[i].beam_id = beam
    THEN 1
    ELSE 0

\* Index of the first connection to `beam` (Iterator::position), 0 if none.
connection_position(connections, beam) ==
    IF \E i \in 1..Len(connections) : connections[i].beam_id = beam
    THEN CHOOSE i \in 1..Len(connections) :
            /\ connections[i].beam_id = beam
            /\ \A j \in 1..(i - 1) : connections[j].beam_id # beam
    ELSE 0

\* One turn of the loop over the two ends (graph.rs 88-106).
remove_beam_end(vertices, id, beam) ==
    IF ~ContainsKey(vertices, id)
    THEN [vertices |-> vertices, res |-> PanicVertexShouldExist]
    ELSE
      LET at == IndexOf(vertices, id)
          index == connection_position(vertices[at].connections, beam)
          left == vec_remove(vertices[at].connections, index)
      IN IF index = 0
         THEN [vertices |-> vertices, res |-> PanicConnectionShouldExist]
         ELSE IF left = <<>>
              THEN [vertices |-> swap_remove_index(vertices, at), res |-> Ok]
              ELSE [vertices |-> [vertices EXCEPT ![at].connections = left],
                    res |-> Ok]

\* remove_beam that goes on to the vertices of a beam it did not find.
remove_beam_unchecked(g, beam) ==
    LET beams == IF ContainsKey(g.beams, beam)
                 THEN swap_remove_index(g.beams, IndexOf(g.beams, beam))
                 ELSE g.beams
        s1 == remove_beam_end(g.vertices, down_vertex(beam), beam)
        s2 == IF s1.res = Ok
              THEN remove_beam_end(s1.vertices, up_vertex(beam), beam)
              ELSE s1
    IN [g |-> [vertices |-> s2.vertices, beams |-> beams], res |-> s2.res]

remove_beam(g, beam) ==
    IF ~ContainsKey(g.beams, beam)
    THEN [g |-> g, res |-> PanicBeamMissing]
    ELSE
      LET beams == swap_remove_index(g.beams, IndexOf(g.beams, beam))
          s1 == remove_beam_end(g.vertices, down_vertex(beam), beam)
          s2 == IF s1.res = Ok
                THEN remove_beam_end(s1.vertices, up_vertex(beam), beam)
                ELSE s1
      IN [g |-> [vertices |-> s2.vertices, beams |-> beams], res |-> s2.res]

----------------------------------------------------------------------------
(* messages.rs: SerializedGraph and its two conversions. *)

\* to_serialized that gives every vertex the position of the first one.
to_serialized_first_position(g) ==
    [vertices |-> [i \in 1..Len(g.vertices) |->
                     [id |-> g.vertices[i].id,
                      position |-> g.vertices[1].position]],
     beams |-> [i \in 1..Len(g.beams) |->
                     [id |-> g.beams[i].id, data |-> g.beams[i].data]]]

\* From<&Graph<B>> for SerializedGraph<B>: both tables in iteration order.
to_serialized(g) ==
    [vertices |-> [i \in 1..Len(g.vertices) |->
                     [id |-> g.vertices[i].id,
                      position |-> g.vertices[i].position]],
     beams |-> [i \in 1..Len(g.beams) |->
                     [id |-> g.beams[i].id, data |-> g.beams[i].data]]]

\* IndexMap::insert: a present key keeps its place and has its value replaced.
indexmap_insert(entries, entry) ==
    IF ContainsKey(entries, entry.id)
    THEN [entries EXCEPT ![IndexOf(entries, entry.id)] = entry]
    ELSE Append(entries, entry)

\* The loop over serialized.vertices (messages.rs 44-52), from entry i on.
RECURSIVE from_serialized_vertices(_, _, _)
from_serialized_vertices(listed, i, vertices) ==
    IF i > Len(listed) THEN vertices
    ELSE from_serialized_vertices(listed, i + 1,
            indexmap_insert(vertices,
                [id |-> listed[i].id, position |-> listed[i].position,
                 connections |-> <<>>]))

\* push_connection that passes over a vertex id that is not listed.
push_connection_lenient(g, id, end) ==
    IF ~ContainsKey(g.vertices, id)
    THEN [g |-> g, res |-> Ok]
    ELSE [g |-> [g EXCEPT !.vertices[IndexOf(g.vertices, id)].connections =
                              Append(@, end)],
          res |-> Ok]

\* get_mut(id).expect(..).connections.push(end)
push_connection(g, id, end) ==
    IF ~ContainsKey(g.vertices, id)
    THEN [g |-> g, res |-> PanicInvalidSnapshot]
    ELSE [g |-> [g EXCEPT !.vertices[IndexOf(g.vertices, id)].connections =
                              Append(@, end)],
          res |-> Ok]

\* The loop over serialized.beams (messages.rs 54-76), from entry i on.
RECURSIVE from_serialized_beams(_, _, _)
from_serialized_beams(listed, i, g) ==
    IF i > Len(listed) THEN [g |-> g, res |-> Ok]
    ELSE
      LET id == listed[i].id
          s1 == push_connection(g, down_vertex(id), BeamEnd(id, Down))
          s2 == IF s1.res = Ok
                THEN push_connection(s1.g, up_vertex(id), BeamEnd(id, Up))
                ELSE s1
      IN IF s2.res # Ok THEN s2
         ELSE from_serialized_beams(listed, i + 1,
                 [s2.g EXCEPT !.beams = indexmap_insert(@, listed[i])])

\* From<SerializedGraph<B>> for Graph<B>
from_serialized(serialized) ==
    from_serialized_beams(serialized.beams, 1,
        [vertices |-> from_serialized_vertices(serialized.vertices, 1, <<>>),
         beams |-> <<>>])

----------------------------------------------------------------------------
(* The Graph machine. *)

BeamIds == {<<d, u>> : d \in VertexIds, u \in VertexIds} \ 
           {<<v, v>> : v \in VertexIds}

CanonicalBeamIds == {b \in BeamIds : b[1] < b[2]}

\* Every call of the Graph machine sets `last`, so a step whose next state
\* has last.op = "remove_beam" is a remove_beam call, and so on.
\* A call as `last` keeps it: the operation, the vertex ids given, whether
\* a position came with each, the beam id concerned, the outcome, and
\* whether the call removes the beam that the call before it added.
Call(op, a, pa, b, pb, beam, res, undo) ==
    [op |-> op, vertex_a |-> a, position_a |-> pa # None, vertex_b |-> b,
     position_b |-> pb # None, beam |-> beam, res |-> res, undo |-> undo]

NoCall == Call("new", None, None, None, None, None, Ok, FALSE)

IdleGraph ==
    /\ graph = EmptyGraph
    /\ last = NoCall
    /\ added_to = None
    /\ snapshot = None
    /\ restored = None

GraphRunning == variant \in {"graph", "convert"} /\ last.res = Ok

\* The machine edits the graph, then takes one snapshot of it and rebuilds a
\* graph from the snapshot: a snapshot is a value of its own, which later
\* edits of the graph would not reach.
GraphEditing == GraphRunning /\ snapshot = None

GraphAddBeam ==
    /\ GraphEditing
    /\ \E a \in VertexIds, b \in VertexIds, pa \in OptPositions,
          pb \in OptPositions, data \in Payloads :
         \E r \in {add_beam(graph, a, pa, b, pb, data)} :
         /\ r.res = Ok => Len(r.g.beams) <= MaxBeams
         /\ graph' = r.g
         /\ last' = Call("add_beam", Some(a), pa, Some(b), pb, r.beam, r.res,
                         FALSE)
         /\ added_to' = IF r.res = Ok THEN Some(graph) ELSE None
    /\ UNCHANGED <<variant, snapshot, restored, frameVars, replVars>>

GraphRemoveBeam ==
    /\ GraphEditing
    /\ \E beam \in CanonicalBeamIds :
         \E r \in {remove_beam(graph, beam)} :
         /\ graph' = r.g
         /\ last' = Call("remove_beam", None, None, None, None, Some(beam),
                         r.res,
                         added_to # None /\ last.beam = Some(beam))
    /\ added_to' = None
    /\ UNCHANGED <<variant, snapshot, restored, frameVars, replVars>>

\* SerializedGraph::from(&graph)
GraphSerialize ==
    /\ GraphRunning
    /\ snapshot = None
    /\ snapshot' = Some(to_serialized(graph))
    /\ last' = Call("to_serialized", None, None, None, None, None, Ok, FALSE)
    /\ added_to' = None
    /\ UNCHANGED <<variant, graph, restored, frameVars, replVars>>

\* Graph::from(snapshot)
GraphDeserialize ==
    /\ GraphRunning
    /\ snapshot # None
    /\ restored = None
    /\ \E r \in {from_serialized(Unwrap(snapshot))} :
         /\ restored' = Some(r.g)
         /\ last' = Call("from_serialized", None, None, None, None, None,
                         r.res, FALSE)
    /\ UNCHANGED <<variant, graph, added_to, snapshot, frameVars, replVars>>

----------------------------------------------------------------------------
(* The arena FrameGraph of lib.rs.  A HopSlotMap is a function from its    *)
(* live keys to their values, with the count of keys it has issued: a key  *)
(* is never issued twice.                                                  *)

PanicBeamVertex == "Beam should point to a valid vertex"
PanicVertexConnection == "Vertex should contain a connection to the beam"
PanicUnwrap == "called Option::unwrap() on a None value"
PanicNotInMap == "Vertex should not be in queue if it is in map."
PanicTodo == "not yet implemented"

FramePanics == {PanicBeamVertex, PanicVertexConnection, PanicUnwrap,
                PanicNotInMap, PanicTodo}

EmptyMap == [k \in {} |-> None]

FrameGraph_new ==
    [vertices |-> EmptyMap, beams |-> EmptyMap,
     vertex_keys |-> 0, beam_keys |-> 0]

MapInsert(map, k, v) == [x \in DOMAIN map \cup {k} |-> IF x = k THEN v ELSE map[x]]

MapRemove(map, k) == [x \in DOMAIN map \ {k} |-> map[x]]

FrameBeamEnd(beam, end) == [beam |-> beam, end |-> end]

opposite(end) == IF end = Up THEN Down ELSE Up

\* Beam::get_vertex
beam_get_vertex(beam, direction) == IF direction = Up THEN beam.up ELSE beam.down

\* Beam::get_vertex_mut, assigned to
beam_set_vertex(beam, direction, vertex_id) ==
    IF direction = Up THEN [beam EXCEPT !.up = vertex_id]
    ELSE [beam EXCEPT !.down = vertex_id]

create_beam(f, up_position, down_position) ==
    LET up == f.vertex_keys + 1
        down == f.vertex_keys + 2
        beam_id == f.beam_keys + 1
        v1 == MapInsert(f.vertices, up,
                 [connections |-> <<>>, position |-> up_position])
        v2 == MapInsert(v1, down,
                 [connections |-> <<>>, position |-> down_position])
        v3 == [v2 EXCEPT ![up].connections =
                 Append(@, FrameBeamEnd(beam_id, Up))]
        v4 == [v3 EXCEPT ![down].connections =
                 Append(@, FrameBeamEnd(beam_id, Down))]
    IN [g |-> [vertices |-> v4,
               beams |-> MapInsert(f.beams, beam_id, [up |-> up, down |-> down]),
               vertex_keys |-> f.vertex_keys + 2,
               beam_keys |-> f.beam_keys + 1],
        res |-> Ok, ret |-> <<beam_id, up, down>>]

\* Index of the first connection equal to `connection`, 0 if none.
frame_connection_position(connections, connection) ==
    IF \E i \in 1..Len(connections) : connections[i] = connection
    THEN CHOOSE i \in 1..Len(connections) :
            /\ connections[i] = connection
            /\ \A j \in 1..(i - 1) : connections[j] # connection
    ELSE 0

\* Vertex::remove_connection: None, or Some(the list is now empty).
remove_connection(vertex, connection) ==
    LET index == frame_connection_position(vertex.connections, connection)
        left == vec_remove(vertex.connections, index)
    IN IF index = 0 THEN [vertex |-> vertex, ret |-> None]
       ELSE [vertex |-> [vertex EXCEPT !.connections = left],
             ret |-> Some(left = <<>>)]

\* frame_remove_beam_end that keeps a vertex left without connections.
frame_remove_beam_end_keeps_vertex(vertices, vertex_id, connection) ==
    IF vertex_id \notin DOMAIN vertices
    THEN [vertices |-> vertices, res |-> PanicBeamVertex]
    ELSE IF remove_connection(vertices[vertex_id], connection).ret = None
         THEN [vertices |-> vertices, res |-> PanicVertexConnection]
         ELSE [vertices |-> [vertices EXCEPT ![vertex_id] =
                  remove_connection(vertices[vertex_id], connection).vertex],
               res |-> Ok]

\* One endpoint of FrameGraph::remove_beam (lib.rs 107-119, 121-133).
frame_remove_beam_end(vertices, vertex_id, connection) ==
    IF vertex_id \notin DOMAIN vertices
    THEN [vertices |-> vertices, res |-> PanicBeamVertex]
    ELSE LET r == remove_connection(vertices[vertex_id], connection) IN
         IF r.ret = None
         THEN [vertices |-> vertices, res |-> PanicVertexConnection]
         ELSE IF Unwrap(r.ret)
              THEN [vertices |-> MapRemove(vertices, vertex_id), res |-> Ok]
              ELSE [vertices |-> [vertices EXCEPT ![vertex_id] = r.vertex],
                    res |-> Ok]

frame_remove_beam(f, beam_id) ==
    IF beam_id \notin DOMAIN f.beams
    THEN [g |-> f, res |-> "false", ret |-> None]
    ELSE
      LET beam == f.beams[beam_id]
          s1 == frame_remove_beam_end(f.vertices, beam.up,
                                      FrameBeamEnd(beam_id, Up))
          s2 == IF s1.res = Ok
                THEN frame_remove_beam_end(s1.vertices, beam.down,
                                           FrameBeamEnd(beam_id, Down))
                ELSE s1
      IN [g |-> [f EXCEPT !.beams = MapRemove(@, beam_id),
                          !.vertices = s2.vertices],
          res |-> IF s2.res = Ok THEN "true" ELSE s2.res,
          ret |-> Some(beam)]

\* merge_rewrite that leaves every beam as it is.
merge_rewrite_none(beams, connections, i, into_vertex_id) ==
    [beams |-> beams, res |-> Ok]

\* The loop of merge_vertices over the moved connections (lib.rs 152-155).
RECURSIVE merge_rewrite(_, _, _, _)
merge_rewrite(beams, connections, i, into_vertex_id) ==
    IF i > Len(connections) THEN [beams |-> beams, res |-> Ok]
    ELSE IF connections[i].beam \notin DOMAIN beams
         THEN [beams |-> beams, res |-> PanicUnwrap]
         ELSE merge_rewrite(
                 [beams EXCEPT ![connections[i].beam] =
                     beam_set_vertex(@, connections[i].end, into_vertex_id)],
                 connections, i + 1, into_vertex_id)

merge_vertices(f, from_vertex_id, into_vertex_id) ==
    IF into_vertex_id \notin DOMAIN f.vertices
    THEN [g |-> f, res |-> "None", ret |-> None]
    ELSE IF from_vertex_id \notin DOMAIN f.vertices
    THEN [g |-> f, res |-> "None", ret |-> None]
    ELSE
      LET connections == f.vertices[from_vertex_id].connections
          vertices == MapRemove(f.vertices, from_vertex_id)
          s1 == merge_rewrite(f.beams, connections, 1, into_vertex_id)
      IN IF s1.res # Ok
         THEN [g |-> [f EXCEPT !.vertices = vertices, !.beams = s1.beams],
               res |-> s1.res, ret |-> None]
         ELSE IF into_vertex_id \notin DOMAIN vertices
         THEN [g |-> [f EXCEPT !.vertices = vertices, !.beams = s1.beams],
               res |-> PanicUnwrap, ret |-> None]
         ELSE [g |-> [f EXCEPT !.vertices =
                         [vertices EXCEPT ![into_vertex_id].connections =
                             @ \o connections],
                      !.beams = s1.beams],
               res |-> "Some", ret |-> Some(into_vertex_id)]

\* `selected` is the set of connections the predicate returns true for.
\* split_vertex without the return for a predicate that selects every
\* connection: the vertex is left empty and a new one takes them all.
split_vertex_always_new(f, vertex_id, selected) ==
    IF vertex_id \notin DOMAIN f.vertices
    THEN [g |-> f, res |-> "None", ret |-> None]
    ELSE
      LET vertex == f.vertices[vertex_id]
          In(c) == c \in selected
          Out(c) == c \notin selected
          connections == SelectSeq(vertex.connections, In)
          retained == SelectSeq(vertex.connections, Out)
          new_id == f.vertex_keys + 1
      IN IF connections = <<>>
         THEN [g |-> f, res |-> "Some(None)", ret |-> None]
         ELSE [g |-> [f EXCEPT
                        !.vertices = MapInsert(
                            [@ EXCEPT ![vertex_id].connections = retained],
                            new_id,
                            [connections |-> connections,
                             position |-> vertex.position]),
                        !.vertex_keys = new_id],
               res |-> "Some(Some)", ret |-> Some(new_id)]

split_vertex(f, vertex_id, selected) ==
    IF vertex_id \notin DOMAIN f.vertices
    THEN [g |-> f, res |-> "None", ret |-> None]
    ELSE
      LET vertex == f.vertices[vertex_id]
          In(c) == c \in selected
          Out(c) == c \notin selected
          connections == SelectSeq(vertex.connections, In)
          retained == SelectSeq(vertex.connections, Out)
          new_id == f.vertex_keys + 1
      IN IF connections = <<>>
         THEN [g |-> f, res |-> "Some(None)", ret |-> None]
         ELSE IF retained = <<>>
         THEN [g |-> [f EXCEPT !.vertices[vertex_id].connections = connections],
               res |-> "Some(Some)", ret |-> Some(vertex_id)]
         ELSE [g |-> [f EXCEPT
                        !.vertices = MapInsert(
                            [@ EXCEPT ![vertex_id].connections = retained],
                            new_id,
                            [connections |-> connections,
                             position |-> vertex.position]),
                        !.vertex_keys = new_id],
               res |-> "Some(Some)", ret |-> Some(new_id)]

----------------------------------------------------------------------------
(* FrameGraph::try_split: the search and the copy it ends in. *)

\* Vec3::distance of two points of the x axis.
distance(p, q) == IF p < q THEN q - p ELSE p - q

\* f32::MAX, the cost a vertex enters best_costs with; it exceeds every
\* path cost of the model.
F32_MAX == 1000000

QueueItem(f, cost, vertex_id) == [f |-> f, cost |-> cost, vertex_id |-> vertex_id]

heap_swap(heap, i, j) == [heap EXCEPT ![i] = heap[j], ![j] = heap[i]]

\* The restoring loop after a pop (lib.rs 327-352); indices count from 1,
\* so the children of parent_index are 2*parent_index and 2*parent_index+1.
RECURSIVE sift_down(_, _)
sift_down(heap, parent_index) ==
    LET left_child_index == 2 * parent_index
        right_child_index == 2 * parent_index + 1
    IN IF /\ left_child_index <= Len(heap)
          /\ heap[parent_index].f < heap[left_child_index].f
       THEN sift_down(heap_swap(heap, parent_index, left_child_index),
                      left_child_index)
       ELSE IF /\ right_child_index <= Len(heap)
               /\ heap[parent_index].f < heap[right_child_index].f
       THEN sift_down(heap_swap(heap, parent_index, right_child_index),
                      right_child_index)
       ELSE heap

\* heap_take_front that reads the first item and leaves it on the heap.
heap_keep_front(heap) == heap

\* heap.pop() and the move of the last item to the front (lib.rs 323-353).
heap_take_front(heap) ==
    LET last_item == heap[Len(heap)]
        rest == SubSeq(heap, 1, Len(heap) - 1)
    IN IF rest = <<>> THEN rest
       ELSE sift_down([rest EXCEPT ![1] = last_item], 1)

\* The loop after a push (lib.rs 399-412); the parent of child_index,
\* counting from 1, is child_index \div 2.
RECURSIVE sift_up(_, _)
sift_up(heap, child_index) ==
    IF child_index > 1 /\ heap[child_index].f < heap[child_index \div 2].f
    THEN sift_up(heap_swap(heap, child_index, child_index \div 2),
                 child_index \div 2)
    ELSE heap

heap_push(heap, item) == sift_up(Append(heap, item), Len(heap) + 1)

\* The loop over the connections of the vertex taken (lib.rs 376-414),
\* from connection i on.  s holds heap, best_costs, visited and status.
RECURSIVE explore(_, _, _, _, _, _)
explore(f, vertex_id, path_cost, end_position, i, s) ==
    LET vertex == f.vertices[vertex_id] IN
    IF i > Len(vertex.connections) THEN s
    ELSE
      LET connection == vertex.connections[i] IN
      IF connection.beam \notin DOMAIN f.beams
      THEN [s EXCEPT !.status = PanicUnwrap]
      ELSE
        LET opposite_vertex_id ==
                beam_get_vertex(f.beams[connection.beam],
                                opposite(connection.end))
        IN
        IF opposite_vertex_id \notin DOMAIN f.vertices
        THEN [s EXCEPT !.status = PanicUnwrap]
        ELSE
          LET opposite_vertex == f.vertices[opposite_vertex_id]
              beam_length == distance(vertex.position, opposite_vertex.position)
              possible_cost == path_cost + beam_length
              entered == IF opposite_vertex_id \in DOMAIN s.best_costs
                         THEN s.best_costs
                         ELSE MapInsert(s.best_costs, opposite_vertex_id,
                                        F32_MAX)
              current_cost == entered[opposite_vertex_id]
          IN IF possible_cost < current_cost
             THEN explore(f, vertex_id, path_cost, end_position, i + 1,
                     [s EXCEPT
                        !.best_costs = [entered EXCEPT
                                          ![opposite_vertex_id] = possible_cost],
                        !.heap = heap_push(@,
                                   QueueItem(possible_cost +
                                               distance(opposite_vertex.position,
                                                        end_position),
                                             possible_cost,
                                             opposite_vertex_id))])
             ELSE explore(f, vertex_id, path_cost, end_position, i + 1,
                          [s EXCEPT !.best_costs = entered])

\* One turn of the main loop (lib.rs 305-415).
search_step(f, end_vertex_id, end_position, s) ==
    IF s.heap = <<>> THEN [s EXCEPT !.status = "exhausted"]
    ELSE
      LET vertex_id == s.heap[1].vertex_id
          cost == s.heap[1].cost
          taken == [s EXCEPT !.heap = heap_take_front(@)]
      IN IF vertex_id = end_vertex_id THEN [taken EXCEPT !.status = "found"]
         ELSE
           LET seen == [taken EXCEPT !.visited = @ \cup {vertex_id}] IN
           IF vertex_id \notin DOMAIN f.vertices
           THEN [seen EXCEPT !.status = PanicUnwrap]
           ELSE IF vertex_id \notin DOMAIN s.best_costs
           THEN [seen EXCEPT !.status = PanicNotInMap]
           ELSE IF s.best_costs[vertex_id] < cost THEN seen
           ELSE explore(f, vertex_id, s.best_costs[vertex_id], end_position,
                        1, seen)

search_start(f, start_vertex_id, end_vertex_id) ==
    [heap |-> <<QueueItem(distance(f.vertices[start_vertex_id].position,
                                   f.vertices[end_vertex_id].position),
                          0, start_vertex_id)>>,
     best_costs |-> MapInsert(EmptyMap, start_vertex_id, 0),
     visited |-> {},
     status |-> "running"]

RECURSIVE search_run(_, _, _, _)
search_run(f, end_vertex_id, end_position, s) ==
    IF s.status # "running" THEN s
    ELSE search_run(f, end_vertex_id, end_position,
                    search_step(f, end_vertex_id, end_position, s))

\* The beams on the connection lists of the visited vertices (lib.rs 424-435).
visited_beams_of(f, visited) ==
    UNION {{f.vertices[v].connections[i].beam :
               i \in 1..Len(f.vertices[v].connections)} : v \in visited}

\* The copy into new_graph (lib.rs 417-463) and the todo!() after it.
split_copy(f, visited) ==
    LET visited_beams == visited_beams_of(f, visited) IN
    IF \E beam_id \in visited_beams :
          \/ beam_id \notin DOMAIN f.beams
          \/ f.beams[beam_id].up \notin visited
          \/ f.beams[beam_id].down \notin visited
    THEN PanicUnwrap
    ELSE PanicTodo

\* try_split that propagates the failed lookup of the start vertex and
\* unwraps the lookup of the end vertex.
try_split_end_unwrapped(f, start_vertex_id, end_vertex_id) ==
    IF start_vertex_id \notin DOMAIN f.vertices
    THEN [g |-> f, res |-> "None", ret |-> None]
    ELSE IF end_vertex_id \notin DOMAIN f.vertices
    THEN [g |-> f, res |-> PanicUnwrap, ret |-> None]
    ELSE [g |-> f, res |-> "None", ret |-> None]

\* try_split with the lookups of its two arguments unwrapped instead of
\* propagated: a vertex id that is not in the graph is a panic.
try_split_unwrapping(f, start_vertex_id, end_vertex_id) ==
    IF \/ start_vertex_id \notin DOMAIN f.vertices
       \/ end_vertex_id \notin DOMAIN f.vertices
    THEN [g |-> f, res |-> PanicUnwrap, ret |-> None]
    ELSE [g |-> f, res |-> "None", ret |-> None]

try_split(f, start_vertex_id, end_vertex_id) ==
    IF start_vertex_id \notin DOMAIN f.vertices
    THEN [g |-> f, res |-> "None", ret |-> None]
    ELSE IF end_vertex_id \notin DOMAIN f.vertices
    THEN [g |-> f, res |-> "None", ret |-> None]
    ELSE
      LET s == search_run(f, end_vertex_id,
                          f.vertices[end_vertex_id].position,
                          search_start(f, start_vertex_id, end_vertex_id))
      IN IF s.status = "found"
         THEN [g |-> f, res |-> "None", ret |-> None]
         ELSE IF s.status = "exhausted"
         THEN [g |-> f, res |-> split_copy(f, s.visited), ret |-> None]
         ELSE [g |-> f, res |-> s.status, ret |-> None]

----------------------------------------------------------------------------
(* The FrameGraph machine. *)

MaxBeamKeys == 2        \* create_beam is called at most this many times
MaxSplitKeys == 1       \* split_vertex creates at most this many vertices

\* A key that is not live fails every lookup alike, whether it was never
\* issued or its entry was removed: the null key 0 stands for all of them.
NullKey == 0
VertexArgs(f) == DOMAIN f.vertices \cup {NullKey}
BeamArgs(f) == DOMAIN f.beams \cup {NullKey}

FrameCall(op, a, b, selected, res, ret) ==
    [op |-> op, a |-> a, b |-> b, selected |-> selected, res |-> res,
     ret |-> ret]

NoFrameCall == FrameCall("new", None, None, {}, Ok, None)

\* No try_split call is in progress.
NoSearch ==
    [end_vertex_id |-> NullKey, heap |-> <<>>, best_costs |-> EmptyMap,
     visited |-> {}, status |-> "idle"]

IdleFrame ==
    /\ fg = FrameGraph_new
    /\ flast = NoFrameCall
    /\ search = NoSearch

\* The calls that changed the graph.  A call that returns leaving the graph
\* as it was (a query, a failed lookup) ends the behaviour: whatever may
\* follow it already follows the state it was made in.
Productive(call) ==
    \/ call.op \in {"new", "create_beam"}
    \/ call.op = "remove_beam" /\ call.res = "true"
    \/ call.op = "merge_vertices" /\ call.res = "Some"
    \/ call.op = "split_vertex" /\ call.res = "Some(Some)" /\ call.ret # call.a

FrameRunning == variant \in {"frame", "split"} /\ Productive(flast)

FrameCreateBeam ==
    /\ FrameRunning
    /\ fg.beam_keys < MaxBeamKeys
    /\ \E up_position \in Positions, down_position \in Positions :
         \E r \in {create_beam(fg, up_position, down_position)} :
         /\ fg' = r.g
         /\ flast' = FrameCall("create_beam", Some(up_position),
                               Some(down_position), {}, r.res, r.ret)
    /\ UNCHANGED <<variant, search, graphVars, replVars>>

FrameRemoveBeam ==
    /\ FrameRunning
    /\ \E beam_id \in BeamArgs(fg) :
         \E r \in {frame_remove_beam(fg, beam_id)} :
         /\ fg' = r.g
         /\ flast' = FrameCall("remove_beam", Some(beam_id), None, {}, r.res,
                               IF r.ret = None THEN None
                               ELSE <<Unwrap(r.ret).up, Unwrap(r.ret).down>>)
    /\ UNCHANGED <<variant, search, graphVars, replVars>>

FrameMergeVertices ==
    /\ FrameRunning
    /\ \E from_vertex_id \in VertexArgs(fg), into_vertex_id \in VertexArgs(fg) :
         \E r \in {merge_vertices(fg, from_vertex_id, into_vertex_id)} :
         /\ fg' = r.g
         /\ flast' = FrameCall("merge_vertices", Some(from_vertex_id),
                               Some(into_vertex_id), {}, r.res, r.ret)
    /\ UNCHANGED <<variant, search, graphVars, replVars>>

ConnectionSet(f, vertex_id) ==
    IF vertex_id \in DOMAIN f.vertices
    THEN {f.vertices[vertex_id].connections[i] :
             i \in 1..Len(f.vertices[vertex_id].connections)}
    ELSE {}

FrameSplitVertex ==
    /\ FrameRunning
    /\ \E vertex_id \in VertexArgs(fg) :
         \E selected \in SUBSET ConnectionSet(fg, vertex_id) :
           \E r \in {split_vertex(fg, vertex_id, selected)} :
           /\ r.g.vertex_keys <= 2 * fg.beam_keys + MaxSplitKeys
           /\ fg' = r.g
           /\ flast' = FrameCall("split_vertex", Some(vertex_id), None,
                                 selected, r.res, r.ret)
    /\ UNCHANGED <<variant, search, graphVars, replVars>>

\* The vertex ids given to try_split: those of VertexArgs and, after a
\* remove_beam, the two endpoints of the beam it removed, live or not.
TrySplitArgs ==
    VertexArgs(fg)
    \cup (IF flast.op = "remove_beam"
          THEN {flast.ret[i] : i \in 1..Len(flast.ret)}
          ELSE {})

FrameTrySplit ==
    /\ FrameRunning
    /\ \E start_vertex_id \in TrySplitArgs, end_vertex_id \in TrySplitArgs :
         \E r \in {try_split(fg, start_vertex_id, end_vertex_id)} :
         /\ fg' = r.g
         /\ flast' = FrameCall("try_split", Some(start_vertex_id),
                               Some(end_vertex_id), {}, r.res, r.ret)
    /\ UNCHANGED <<variant, search, graphVars, replVars>>

----------------------------------------------------------------------------
(* Frame graphs to run the split check on: three beams, the third joined  *)
(* to the first two (or left apart), and the first two joined or not.     *)

JoinKeys == {NullKey, 1, 2, 3, 4}

\* merge_vertices as a caller uses it: the graph it leaves.
merged(f, from_vertex_id, into_vertex_id) ==
    merge_vertices(f, from_vertex_id, into_vertex_id).g

\* Beam 1 is (up 1, down 2), beam 2 (up 3, down 4), beam 3 (up 5, down 6).
three_beams(p) ==
    create_beam(create_beam(create_beam(FrameGraph_new, p[1], p[2]).g,
                            p[3], p[4]).g,
                p[5], p[6]).g

joined_frame(p, first, up_into, down_into) ==
    merged(merged(merged(three_beams(p), 3, first), 5, up_into), 6, down_into)

SplitInputs ==
    {joined_frame(p, first, up_into, down_into) :
        p \in [1..6 -> Positions], first \in {NullKey, 2},
        up_into \in JoinKeys, down_into \in JoinKeys}

----------------------------------------------------------------------------
(* The search of try_split, one turn of its main loop at a time, on the   *)
(* joined frame graphs and every pair of their vertices.                  *)

\* Beams 1 to 3 as in three_beams, beam 4 (up 7, down 8), beam 5 (up 9,
\* down 10).
five_beams(p) ==
    create_beam(create_beam(three_beams(p), p[7], p[8]).g, p[9], p[10]).g

\* A square 1 - 2 - 4 - 6 - 1 of four beams and a fifth beam, joined to the
\* corner opposite to vertex 1 or left apart.
square_frame(p, tail_into) ==
    merged(merged(merged(merged(merged(five_beams(p), 3, 2), 5, 1), 7, 6),
                  8, 4),
           9, tail_into)

SearchInputs ==
    SplitInputs
    \cup {square_frame(p, tail_into) :
             p \in [1..10 -> Positions], tail_into \in {NullKey, 4}}

\* The locals of try_split when it enters its loop (lib.rs 275-303).
search_enter(f, start_vertex_id, end_vertex_id) ==
    LET s == search_start(f, start_vertex_id, end_vertex_id)
    IN [end_vertex_id |-> end_vertex_id, heap |-> s.heap,
        best_costs |-> s.best_costs, visited |-> s.visited,
        status |-> s.status]

SearchStep ==
    /\ variant = "search"
    /\ search.status = "running"
    /\ search' = search_step(fg, search.end_vertex_id,
                             fg.vertices[search.end_vertex_id].position,
                             search)
    /\ UNCHANGED <<variant, fg, flast, graphVars, replVars>>

----------------------------------------------------------------------------
(* server.rs and client.rs: the server's ShipFrame, its id allocator, and  *)
(* a client's ShipFrame fed by the messages the server returns.            *)

MaxNextId == 3          \* FrameIdWorld issues the ids 0..MaxNextId-1
MaxWire == 2            \* at most this many updates wait for the client

\* next that does not advance the counter.
next_stuck(counter) == [id |-> counter, next_id |-> counter]

\* FrameIdWorld::next
next(counter) == [id |-> counter, next_id |-> counter + 1]

AddBeam(vertex_a, position_a, vertex_b, position_b, beam_data) ==
    [kind |-> "AddBeam", vertex_a |-> vertex_a, position_a |-> position_a,
     vertex_b |-> vertex_b, position_b |-> position_b, beam_data |-> beam_data]

\* ShipFrame::new_from_beam
new_from_beam(counter, position_a, position_b, beam_data) ==
    LET a == next(counter)
        b == next(a.next_id)
        r == add_beam(EmptyGraph, a.id, Some(position_a), b.id,
                      Some(position_b), beam_data)
    IN [g |-> r.g, res |-> r.res, next_id |-> b.next_id, update |-> None,
        ids |-> <<a.id, b.id>>]

\* add_beam_extend that reports the position with the existing vertex.
add_beam_extend_misplaced(g, counter, existing_vertex, position, beam_data) ==
    LET n == next(counter)
        r == add_beam(g, existing_vertex, None, n.id, Some(position), beam_data)
    IN [g |-> r.g, res |-> r.res, next_id |-> n.next_id, ids |-> <<n.id>>,
        update |-> IF r.res = Ok
                   THEN Some(AddBeam(existing_vertex, Some(position), n.id,
                                     None, beam_data))
                   ELSE None]

\* ShipFrame::add_beam_extend
add_beam_extend(g, counter, existing_vertex, position, beam_data) ==
    LET n == next(counter)
        r == add_beam(g, existing_vertex, None, n.id, Some(position), beam_data)
    IN [g |-> r.g, res |-> r.res, next_id |-> n.next_id, ids |-> <<n.id>>,
        update |-> IF r.res = Ok
                   THEN Some(AddBeam(existing_vertex, None, n.id,
                                     Some(position), beam_data))
                   ELSE None]

\* ShipFrame::add_beam_join
add_beam_join(g, counter, vertex_a, vertex_b, beam_data) ==
    LET r == add_beam(g, vertex_a, None, vertex_b, None, beam_data)
    IN [g |-> r.g, res |-> r.res, next_id |-> counter, ids |-> <<>>,
        update |-> IF r.res = Ok
                   THEN Some(AddBeam(vertex_a, None, vertex_b, None, beam_data))
                   ELSE None]

\* client ShipFrame::apply_update
apply_update(g, update) ==
    IF update.kind = "AddBeam"
    THEN add_beam(g, update.vertex_a, update.position_a, update.vertex_b,
                  update.position_b, update.beam_data)
    ELSE remove_beam(g, update.id)

\* BeamId::vertices: the two vertex ids of a beam id.
BeamId_vertices(beam) == <<down_vertex(beam), up_vertex(beam)>>

\* map_entry that keeps the old id and asks the allocator for nothing.
map_entry_kept(st, id) == [st EXCEPT !.map = @ @@ (id :> id)]

\* map.entry(id).or_insert_with(|| self.next()): the id an old vertex id is
\* mapped to, issued by the allocator the first time the old id is met.
map_entry(st, id) ==
    IF id \in DOMAIN st.map
    THEN st
    ELSE LET n == next(st.counter)
         IN [st EXCEPT !.map = @ @@ (id :> n.id),
                       !.counter = n.next_id,
                       !.ids = Append(@, n.id)]

\* The loop over graph.vertices (server.rs 27-29), from entry i on.
RECURSIVE map_frame_vertices(_, _, _)
map_frame_vertices(listed, i, st) ==
    IF i > Len(listed) THEN st
    ELSE LET e == map_entry(st, listed[i].id)
         IN map_frame_vertices(listed, i + 1,
               [e EXCEPT !.vertices =
                   Append(@, [id |-> e.map[listed[i].id],
                              position |-> listed[i].position])])

\* The loop over graph.beams (server.rs 31-38), from entry i on.
RECURSIVE map_frame_beams(_, _, _)
map_frame_beams(listed, i, st) ==
    IF i > Len(listed) THEN st
    ELSE LET ends == BeamId_vertices(listed[i].id)
             a == map_entry(st, ends[1])
             b == map_entry(a, ends[2])
         IN map_frame_beams(listed, i + 1,
               [b EXCEPT !.beams =
                   Append(@, [id |-> BeamId_from_vertices(b.map[ends[1]],
                                                          b.map[ends[2]]),
                              data |-> listed[i].data])])

\* FrameIdWorld::map_frame
map_frame(counter, serialized) ==
    LET start == [map |-> <<>>, counter |-> counter, ids |-> <<>>,
                  vertices |-> <<>>, beams |-> <<>>]
        v == map_frame_vertices(serialized.vertices, 1, start)
        b == map_frame_beams(serialized.beams, 1, v)
        r == from_serialized([vertices |-> b.vertices, beams |-> b.beams])
    IN [g |-> r.g, res |-> r.res, next_id |-> b.counter, ids |-> b.ids]

MaxIssued == 4             \* the remap machine issues the ids 0..MaxIssued-1
MaxFirstId == 1            \* map_frame alone: the allocator starts at 0..MaxFirstId
MaxFragmentVertices == 3   \* a fragment lists at most this many vertices
MaxFragmentBeams == 2      \* a fragment lists at most this many beams

SeqsUpTo(S, n) == UNION {[1..k -> S] : k \in 0..n}

\* The SerializedGraph values handed to map_frame: any list of vertices
\* and any list of beams, repeated and unlisted ids included.
FragmentsOf(max_vertices, max_beams) ==
    [vertices : SeqsUpTo([id : VertexIds, position : Positions],
                         max_vertices),
     beams : SeqsUpTo([id : CanonicalBeamIds, data : Payloads], max_beams)]

Fragments == FragmentsOf(MaxFragmentVertices, MaxFragmentBeams)

\* The vertex ids a fragment names, each of which map_frame gives a new id.
FragmentIds(fragment) ==
    {fragment.vertices[i].id : i \in 1..Len(fragment.vertices)}
    \cup UNION {{down_vertex(fragment.beams[i].id),
                 up_vertex(fragment.beams[i].id)} :
                   i \in 1..Len(fragment.beams)}

\* The fragments of the remap machine, which calls map_frame repeatedly:
\* one vertex and one beam less than those given to a single call.
RemapFragments ==
    FragmentsOf(MaxFragmentVertices - 1, MaxFragmentBeams - 1)

\* No map_frame call yet.
NoRemap == [fragment |-> [vertices |-> <<>>, beams |-> <<>>],
            frame |-> EmptyGraph, earlier |-> {}]

IdleRepl ==
    /\ server = None
    /\ next_id = 0
    /\ wire = <<>>
    /\ client = None
    /\ mirror_of = None
    /\ rlast = [op |-> "new", res |-> Ok]
    /\ issued = <<>>
    /\ remap = NoRemap

ReplRunning == variant \in {"repl", "remap"} /\ rlast.res = Ok

\* A client has asked for the frame: the server's updates go on the wire.
Subscribed == wire # <<>> \/ client # None

\* A message on the wire and, with it, the server graph it brings the
\* client up to.
Message(kind, body, after) == [kind |-> kind, body |-> body, after |-> after]

Emit(r) ==
    IF Subscribed /\ r.update # None
    THEN Append(wire, Message("update", Unwrap(r.update), r.g))
    ELSE wire

ServerEdit(op, r) ==
    /\ Len(Emit(r)) <= MaxWire + 1
    /\ server' = Some(r.g)
    /\ next_id' = r.next_id
    /\ wire' = Emit(r)
    /\ rlast' = [op |-> op, res |-> r.res]
    /\ issued' = issued \o r.ids
    /\ UNCHANGED <<variant, client, mirror_of, remap, graphVars, frameVars>>

ServerNewFromBeam ==
    /\ ReplRunning
    /\ server = None
    /\ \E position_a \in Positions, position_b \in Positions,
          beam_data \in Payloads :
         \E r \in {new_from_beam(next_id, position_a, position_b, beam_data)} :
           ServerEdit("new_from_beam", r)

ServerAddBeamExtend ==
    /\ ReplRunning
    /\ server # None
    /\ next_id < MaxNextId
    /\ \E existing_vertex \in 0..MaxNextId, position \in Positions,
          beam_data \in Payloads :
         \E r \in {add_beam_extend(Unwrap(server), next_id, existing_vertex,
                                   position, beam_data)} :
           ServerEdit("add_beam_extend", r)

ServerAddBeamJoin ==
    /\ ReplRunning
    /\ server # None
    /\ \E vertex_a \in 0..MaxNextId, vertex_b \in 0..MaxNextId,
          beam_data \in Payloads :
         \E r \in {add_beam_join(Unwrap(server), next_id, vertex_a, vertex_b,
                                 beam_data)} :
           ServerEdit("add_beam_join", r)

\* A direct call of FrameIdWorld::next
AllocNext ==
    /\ variant = "remap"
    /\ ReplRunning
    /\ next_id < MaxIssued
    /\ \E n \in {next(next_id)} :
         /\ next_id' = n.next_id
         /\ issued' = Append(issued, n.id)
    /\ rlast' = [op |-> "next", res |-> Ok]
    /\ UNCHANGED <<variant, server, wire, client, mirror_of, remap,
                   graphVars, frameVars>>

\* FrameIdWorld::map_frame.  `earlier` collects the vertex ids of the
\* frames that earlier map_frame calls returned.
MapFrame ==
    /\ variant = "remap"
    /\ ReplRunning
    /\ \E fragment \in RemapFragments :
         /\ next_id + Cardinality(FragmentIds(fragment)) <= MaxIssued
         /\ \E r \in {map_frame(next_id, fragment)} :
           /\ next_id' = r.next_id
           /\ issued' = issued \o r.ids
           /\ remap' = [fragment |-> fragment, frame |-> r.g,
                        earlier |-> remap.earlier
                                      \cup Keys(remap.frame.vertices)]
           /\ rlast' = [op |-> "map_frame", res |-> r.res]
    /\ UNCHANGED <<variant, server, wire, client, mirror_of,
                   graphVars, frameVars>>

\* FrameIdWorld::map_frame called once, on the fragment and the allocator
\* the behaviour starts with.
ApplyMapFrame ==
    /\ variant = "mapframe"
    /\ rlast.op = "new"
    /\ \E r \in {map_frame(next_id, remap.fragment)} :
         /\ next_id' = r.next_id
         /\ issued' = issued \o r.ids
         /\ remap' = [remap EXCEPT !.frame = r.g]
         /\ rlast' = [op |-> "map_frame", res |-> r.res]
    /\ UNCHANGED <<variant, server, wire, client, mirror_of,
                   graphVars, frameVars>>

\* ShipFrame::serialize, its result sent to the client
ServerSerialize ==
    /\ ReplRunning
    /\ server # None
    /\ ~Subscribed
    /\ wire' = <<Message("snapshot", to_serialized(Unwrap(server)),
                         Unwrap(server))>>
    /\ rlast' = [op |-> "serialize", res |-> Ok]
    /\ UNCHANGED <<variant, server, next_id, client, mirror_of, issued,
                   remap, graphVars, frameVars>>

\* client ShipFrame::new
ClientNew ==
    /\ ReplRunning
    /\ wire # <<>>
    /\ Head(wire).kind = "snapshot"
    /\ \E r \in {from_serialized(Head(wire).body)} :
         /\ client' = Some(r.g)
         /\ rlast' = [op |-> "new", res |-> r.res]
    /\ mirror_of' = Some(Head(wire).after)
    /\ wire' = Tail(wire)
    /\ UNCHANGED <<variant, server, next_id, issued, remap, graphVars,
                   frameVars>>

\* client ShipFrame::apply_update
ClientApplyUpdate ==
    /\ ReplRunning
    /\ client # None
    /\ wire # <<>>
    /\ Head(wire).kind = "update"
    /\ \E r \in {apply_update(Unwrap(client), Head(wire).body)} :
         /\ client' = Some(r.g)
         /\ rlast' = [op |-> "apply_update", res |-> r.res]
    /\ mirror_of' = Some(Head(wire).after)
    /\ wire' = Tail(wire)
    /\ UNCHANGED <<variant, server, next_id, issued, remap, graphVars,
                   frameVars>>

----------------------------------------------------------------------------
(* Specifications. *)

InitGraph == variant = "graph" /\ IdleGraph /\ IdleFrame /\ IdleRepl

InitFrame == variant = "frame" /\ IdleGraph /\ IdleFrame /\ IdleRepl

InitSplit ==
    /\ variant = "split"
    /\ fg \in SplitInputs
    /\ flast = NoFrameCall
    /\ search = NoSearch
    /\ IdleGraph
    /\ IdleRepl

\* try_split entering its loop on a joined frame graph.
InitSearch ==
    /\ variant = "search"
    /\ fg \in SearchInputs
    /\ flast = NoFrameCall
    /\ \E start_vertex_id \in DOMAIN fg.vertices,
          end_vertex_id \in DOMAIN fg.vertices :
         search = search_enter(fg, start_vertex_id, end_vertex_id)
    /\ IdleGraph
    /\ IdleRepl

InitRepl == variant = "repl" /\ IdleGraph /\ IdleFrame /\ IdleRepl

InitRemap == variant = "remap" /\ IdleGraph /\ IdleFrame /\ IdleRepl

NextGraph ==
    \/ GraphAddBeam
    \/ GraphRemoveBeam
    \/ GraphSerialize
    \/ GraphDeserialize

NextFrame ==
    \/ FrameCreateBeam
    \/ FrameRemoveBeam
    \/ FrameMergeVertices
    \/ FrameSplitVertex
    \/ FrameTrySplit

NextSplit ==
    \/ FrameRemoveBeam
    \/ FrameTrySplit

NextRepl ==
    \/ ServerNewFromBeam
    \/ ServerAddBeamExtend
    \/ ServerAddBeamJoin
    \/ ServerSerialize
    \/ ClientNew
    \/ ClientApplyUpdate

\* Any SerializedGraph, as it may arrive from another party, to convert.
InitConvert ==
    /\ variant = "convert"
    /\ graph = EmptyGraph
    /\ last = NoCall
    /\ added_to = None
    /\ \E serialized \in Fragments : snapshot = Some(serialized)
    /\ restored = None
    /\ IdleFrame
    /\ IdleRepl

\* An allocator that has issued the ids 0..next_id-1 and a fragment.
InitMapFrame ==
    /\ variant = "mapframe"
    /\ IdleGraph
    /\ IdleFrame
    /\ server = None
    /\ wire = <<>>
    /\ client = None
    /\ mirror_of = None
    /\ rlast = [op |-> "new", res |-> Ok]
    /\ next_id \in 0..MaxFirstId
    /\ issued = [i \in 1..next_id |-> i - 1]
    /\ \E fragment \in Fragments :
         remap = [NoRemap EXCEPT !.fragment = fragment]

NextRemap ==
    \/ AllocNext
    \/ MapFrame
    \/ ServerNewFromBeam
    \/ ServerAddBeamExtend

\* The identity-keyed Graph under add_beam and remove_beam.
SpecGraph == InitGraph /\ [][NextGraph]_vars

\* The arena FrameGraph under its five operations.
SpecFrame == InitFrame /\ [][NextFrame]_vars

\* The split check on joined frame graphs.
SpecSplit == InitSplit /\ [][NextSplit]_vars

\* A server and the client that mirrors it.
SpecRepl == InitRepl /\ [][NextRepl]_vars

\* Both graph stores under their edit operations.
\* The allocator under next, new_from_beam, add_beam_extend and map_frame.
SpecRemap == InitRemap /\ [][NextRemap]_vars

\* From<SerializedGraph<B>> for Graph<B> as a function of the snapshot.
SpecConvert == InitConvert /\ [][GraphDeserialize]_vars

\* map_frame as a function of the fragment and the allocator.
SpecMapFrame == InitMapFrame /\ [][ApplyMapFrame]_vars

\* The search loop of try_split.
SpecSearch == InitSearch /\ [][SearchStep]_vars

\* The loop goes on to its next turn for as long as it has not left.
FairSearch == SpecSearch /\ WF_vars(SearchStep)

SpecEdit == (InitGraph \/ InitFrame) /\ [][NextGraph \/ NextFrame]_vars

----------------------------------------------------------------------------
(* Vocabulary of the properties. *)

SeqSet(seq) == {seq[i] : i \in 1..Len(seq)}

VertexSet(g) == {<<g.vertices[i].id, g.vertices[i].position>> :
                    i \in 1..Len(g.vertices)}

BeamSet(g) == {<<g.beams[i].id, g.beams[i].data>> : i \in 1..Len(g.beams)}

Connections(g, id) == Get(g.vertices, id).connections

\* The beam ends that the beam table places at vertex `id`.
EndsAt(g, id) ==
    {BeamEnd(b, Down) : b \in {x \in Keys(g.beams) : down_vertex(x) = id}}
    \cup {BeamEnd(b, Up) : b \in {x \in Keys(g.beams) : up_vertex(x) = id}}

\* Same vertices, positions, beams, payloads and connection lists.
SameGraph(g, h) ==
    /\ Len(g.vertices) = Len(h.vertices)
    /\ Len(g.beams) = Len(h.beams)
    /\ VertexSet(g) = VertexSet(h)
    /\ BeamSet(g) = BeamSet(h)
    /\ \A id \in Keys(g.vertices) : Connections(g, id) = Connections(h, id)

\* Same vertices, positions, beams, payloads and connection sets.
SameContent(g, h) ==
    /\ Len(g.vertices) = Len(h.vertices)
    /\ Len(g.beams) = Len(h.beams)
    /\ VertexSet(g) = VertexSet(h)
    /\ BeamSet(g) = BeamSet(h)
    /\ \A id \in Keys(g.vertices) :
          /\ Len(Connections(g, id)) = Len(Connections(h, id))
          /\ SeqSet(Connections(g, id)) = SeqSet(Connections(h, id))

\* The vertices joined to `from` by a chain of beams of the frame graph f.
RECURSIVE FrameComponent(_, _)
FrameComponent(f, found) ==
    LET more == {v \in DOMAIN f.vertices :
                    \E b \in DOMAIN f.beams, w \in found :
                       {f.beams[b].up, f.beams[b].down} = {v, w}}
    IN IF more \subseteq found THEN found
       ELSE FrameComponent(f, found \cup more)

FrameReachable(f, from, to) == to \in FrameComponent(f, {from})

\* Every beam ends at two live vertices that list it, every connection is
\* listed by the vertex its beam names.
FrameWellFormed(f) ==
    /\ \A b \in DOMAIN f.beams :
          /\ f.beams[b].up \in DOMAIN f.vertices
          /\ f.beams[b].down \in DOMAIN f.vertices
          /\ FrameBeamEnd(b, Up) \in ConnectionSet(f, f.beams[b].up)
          /\ FrameBeamEnd(b, Down) \in ConnectionSet(f, f.beams[b].down)
    /\ \A v \in DOMAIN f.vertices : \A c \in ConnectionSet(f, v) :
          /\ c.beam \in DOMAIN f.beams
          /\ beam_get_vertex(f.beams[c.beam], c.end) = v

----------------------------------------------------------------------------
(* C1: in the identity-keyed Graph, after any sequence of successful       *)
(* add_beam and remove_beam calls from the empty graph, both vertices of   *)
(* every beam are in the vertex table, and the connection list of every    *)
(* vertex holds exactly one (b, Down) for each beam b whose down vertex it *)
(* is, exactly one (b, Up) for each beam whose up vertex it is, and        *)
(* nothing else.                                                           *)
C1_ConnectionsMatchBeams ==
    (variant = "graph" /\ last.res = Ok) =>
        /\ \A b \in Keys(graph.beams) :
              /\ down_vertex(b) \in Keys(graph.vertices)
              /\ up_vertex(b) \in Keys(graph.vertices)
        /\ \A id \in Keys(graph.vertices) :
              /\ SeqSet(Connections(graph, id)) = EndsAt(graph, id)
              /\ Len(Connections(graph, id)) = Cardinality(EndsAt(graph, id))

\* A beam was removed from a graph that keeps two beams meeting at a vertex.
C1_Witness ==
    /\ variant = "graph"
    /\ last.op = "remove_beam"
    /\ last.res = Ok
    /\ Len(graph.beams) = 2
    /\ \E id \in Keys(graph.vertices) : Len(Connections(graph, id)) = 2

----------------------------------------------------------------------------
(* C2: zero-degree elimination.  After any sequence of successful edits    *)
(* (add_beam, remove_beam on Graph; create_beam, remove_beam,              *)
(* merge_vertices, split_vertex on FrameGraph) no stored vertex has an     *)
(* empty connection list, and a vertex whose last connection a             *)
(* remove_beam call removes leaves the vertex table in that call.          *)
C2_NoEmptyVertex ==
    /\ (variant = "graph" /\ last.res = Ok) =>
          \A i \in 1..Len(graph.vertices) :
             graph.vertices[i].connections # <<>>
    /\ (variant = "frame" /\ flast.res \notin FramePanics) =>
          \A v \in DOMAIN fg.vertices : fg.vertices[v].connections # <<>>

C2_RemovedWithLastConnection ==
    /\ (variant = "graph" /\ last'.op = "remove_beam" /\ last'.res = Ok) =>
          \A i \in 1..Len(graph.vertices) :
             (\A c \in SeqSet(graph.vertices[i].connections) :
                  Some(c.beam_id) = last'.beam)
             => graph.vertices[i].id \notin Keys(graph'.vertices)
    /\ (variant = "frame" /\ flast'.op = "remove_beam"
           /\ flast'.res = "true") =>
          \A v \in DOMAIN fg.vertices :
             (\A c \in ConnectionSet(fg, v) : Some(c.beam) = flast'.a)
             => v \notin DOMAIN fg'.vertices

\* C2: after every call that returns, no stored vertex has an empty
\* connection list, and remove_beam removes the vertices it leaves empty.
C2_ZeroDegreeElimination ==
    [][C2_NoEmptyVertex' /\ C2_RemovedWithLastConnection]_vars

\* A frame graph that has had a vertex split, then lost a beam and, with
\* it, a vertex, and keeps other vertices.
C2_Witness ==
    /\ variant = "frame"
    /\ flast.op = "remove_beam"
    /\ flast.res = "true"
    /\ fg.vertex_keys > 2 * fg.beam_keys
    /\ flast.ret[1] \notin DOMAIN fg.vertices
    /\ DOMAIN fg.vertices # {}

----------------------------------------------------------------------------
(* C3: split correctness.  When a beam has been removed from a frame       *)
(* graph, both its endpoints survive, and try_split(start, end) is run on  *)
(* them with end not reachable from start through the remaining beams,     *)
(* the call returns a second graph (Some), and the vertices reachable from *)
(* start are no longer in the original graph.                              *)
C3_SplitOfRemovedBeam ==
    /\ variant = "split"
    /\ flast.op = "remove_beam"
    /\ flast.res = "true"
    /\ flast'.op = "try_split"
    /\ {Unwrap(flast'.a), Unwrap(flast'.b)}
          = {flast.ret[1], flast.ret[2]}
    /\ Unwrap(flast'.a) \in DOMAIN fg.vertices
    /\ Unwrap(flast'.b) \in DOMAIN fg.vertices
    /\ ~FrameReachable(fg, Unwrap(flast'.a), Unwrap(flast'.b))

\* C3: try_split on the unreachable endpoints of a removed beam returns a
\* second graph and takes the component of start out of the original.
C3_SplitReturnsSecondGraph ==
    [][C3_SplitOfRemovedBeam =>
          /\ flast'.res = "Some"
          /\ DOMAIN fg'.vertices
                \cap FrameComponent(fg, {Unwrap(flast'.a)}) = {}]_vars

----------------------------------------------------------------------------
(* C4: non-split correctness.  For every frame graph and every pair of     *)
(* live vertices start and end with end reachable from start through the   *)
(* beams of the graph, try_split(start, end) returns None and leaves the   *)
(* vertex table, the beam table and every connection list unchanged.       *)
C4_TrySplitOfReachable ==
    /\ variant \in {"frame", "split"}
    /\ flast'.op = "try_split"
    /\ Unwrap(flast'.a) \in DOMAIN fg.vertices
    /\ Unwrap(flast'.b) \in DOMAIN fg.vertices
    /\ FrameReachable(fg, Unwrap(flast'.a), Unwrap(flast'.b))

\* C4: try_split of a reachable pair returns None and changes nothing.
C4_ReachableIsNotSplit ==
    [][C4_TrySplitOfReachable => flast'.res = "None" /\ fg' = fg]_vars

----------------------------------------------------------------------------
(* C5: replication consistency.  A client built from the server's          *)
(* serialize() snapshot that applies the server's FrameUpdates in the      *)
(* order they were returned never fails, and after the k-th update its     *)
(* graph has the vertex ids and positions, the beam ids and payloads and   *)
(* the per-vertex connection sets the server's graph had right after the   *)
(* k-th edit.                                                              *)
C5_ClientMirrorsServer ==
    (variant = "repl" /\ client # None) =>
        /\ rlast.op \in {"new", "apply_update"} => rlast.res = Ok
        /\ SameContent(Unwrap(client), Unwrap(mirror_of))

\* The client has caught up with a server that made two edits after the
\* snapshot: an extension and a join.
C5_Witness ==
    /\ variant = "repl"
    /\ client # None
    /\ rlast.op = "apply_update"
    /\ wire = <<>>
    /\ Len(Unwrap(client).beams) = 3
    /\ Len(Unwrap(client).vertices) = 3
    /\ Unwrap(client) = Unwrap(server)

----------------------------------------------------------------------------
(* C6: add_beam fails exactly when the two vertex ids are equal, or a      *)
(* position is supplied for a vertex id already in the graph, or no        *)
(* position is supplied for a vertex id not in the graph, or the canonical *)
(* beam id of the two vertex ids is already in the beam table.             *)
C6_FailureCase(g, call) ==
    LET a == Unwrap(call.vertex_a)
        b == Unwrap(call.vertex_b)
    IN \/ a = b
       \/ call.position_a /\ a \in Keys(g.vertices)
       \/ ~call.position_a /\ a \notin Keys(g.vertices)
       \/ call.position_b /\ b \in Keys(g.vertices)
       \/ ~call.position_b /\ b \notin Keys(g.vertices)
       \/ BeamId_from_vertices(a, b) \in Keys(g.beams)

\* C6: add_beam fails in the four listed cases and in no other.
C6_AddBeamFailsExactly ==
    [][(variant = "graph" /\ last'.op = "add_beam") =>
          (last'.res # Ok <=> C6_FailureCase(graph, last'))]_vars

\* A join of two vertices that a beam already joins was refused.
C6_Witness ==
    /\ variant = "graph"
    /\ last.op = "add_beam"
    /\ last.res = PanicBeamTwice
    /\ ~last.position_a
    /\ ~last.position_b

----------------------------------------------------------------------------
(* C7: remove_beam called on the only beam of a graph reports a failure    *)
(* to the caller and does not leave a graph with no vertices and no beams, *)
(* in the identity-keyed Graph and in the arena FrameGraph alike.          *)
C7_LastBeamIsKept ==
    [][/\ (variant = "graph" /\ last'.op = "remove_beam"
              /\ Keys(graph.beams) = {Unwrap(last'.beam)}) =>
             /\ last'.res # Ok
             /\ graph'.beams # <<>>
             /\ graph'.vertices # <<>>
       /\ (variant = "frame" /\ flast'.op = "remove_beam"
              /\ DOMAIN fg.beams = {Unwrap(flast'.a)}) =>
             /\ flast'.res # "true"
             /\ DOMAIN fg'.beams # {}
             /\ DOMAIN fg'.vertices # {}]_vars

----------------------------------------------------------------------------
(* C8: remove_beam called with a beam id that is not in the graph fails    *)
(* (Graph::remove_beam panics, FrameGraph::remove_beam returns false) and  *)
(* leaves the vertex table, the beam table and every connection list as    *)
(* they were before the call.                                              *)
C8_MissingBeamChangesNothing ==
    [][/\ (variant = "graph" /\ last'.op = "remove_beam"
              /\ Unwrap(last'.beam) \notin Keys(graph.beams)) =>
             /\ last'.res = PanicBeamMissing
             /\ graph' = graph
       /\ (variant = "frame" /\ flast'.op = "remove_beam"
              /\ Unwrap(flast'.a) \notin DOMAIN fg.beams) =>
             /\ flast'.res = "false"
             /\ fg' = fg]_vars

\* A graph of two beams was asked to remove a third.
C8_Witness ==
    /\ variant = "graph"
    /\ last.op = "remove_beam"
    /\ last.res = PanicBeamMissing
    /\ Len(graph.beams) = 2
    /\ Len(graph.vertices) = 3

----------------------------------------------------------------------------
(* C9: add/remove round trip.  For every graph g and every add_beam call   *)
(* that succeeds on g, a remove_beam of the beam id just inserted that     *)
(* follows it succeeds and yields a graph with the vertex ids and          *)
(* positions, the beam ids and payloads, and the connection list of every  *)
(* vertex that g had.                                                      *)
C9_RemoveUndoesAdd ==
    [][(variant = "graph" /\ last'.op = "remove_beam" /\ last'.undo) =>
          /\ last'.res = Ok
          /\ SameGraph(graph', Unwrap(added_to))]_vars

\* A beam between two vertices already in a graph of two beams was added
\* and removed again.
C9_Witness ==
    /\ variant = "graph"
    /\ last.op = "remove_beam"
    /\ last.undo
    /\ last.res = Ok
    /\ Len(graph.beams) = 2
    /\ Len(graph.vertices) = 3

----------------------------------------------------------------------------
(* C10: snapshot round trip.  For every graph reached from the empty graph *)
(* by successful add_beam and remove_beam calls, converting it to a        *)
(* SerializedGraph and back does not fail and yields a graph with the same *)
(* vertex ids and positions, the same beam ids and payloads, and for every *)
(* vertex the same set of BeamEnds in its connection list.                 *)
C10_SnapshotRoundTrip ==
    (variant = "graph" /\ restored # None) =>
        /\ last.res = Ok
        /\ SameContent(Unwrap(restored), graph)

\* The graph rebuilt from the snapshot lists its entries in another order
\* than the graph the snapshot was taken of.
C10_Witness ==
    /\ variant = "graph"
    /\ restored # None
    /\ Len(graph.beams) = 2
    /\ Unwrap(restored) # graph

----------------------------------------------------------------------------
\* The vertex ids that appear in a graph, as keys of its vertex table or as
\* endpoints of its beam ids.
GraphVertexIds(g) ==
    Keys(g.vertices)
    \cup UNION {{down_vertex(b), up_vertex(b)} : b \in Keys(g.beams)}

(* C11: remap freshness.  Every vertex id that appears in the frame        *)
(* returned by map_frame, as a vertex key or as an endpoint of a beam id,  *)
(* was issued by the allocator during that call and equals no id issued    *)
(* before it; the frames returned by two map_frame calls on one allocator  *)
(* (on two fragments or on the same fragment twice) share no vertex id.    *)
C11_RemapFreshness ==
    [][(variant = "remap" /\ rlast'.op = "map_frame" /\ rlast'.res = Ok) =>
          /\ GraphVertexIds(remap'.frame)
                \subseteq SeqSet(issued') \ SeqSet(issued)
          /\ GraphVertexIds(remap'.frame) \cap remap'.earlier = {}]_vars

\* A second map_frame call returned a frame of one beam, after a first
\* call that returned a frame of two vertices.
C11_Witness ==
    /\ variant = "remap"
    /\ rlast.op = "map_frame"
    /\ rlast.res = Ok
    /\ Cardinality(remap.earlier) = 2
    /\ Len(remap.frame.beams) = 1
    /\ Len(remap.frame.vertices) = 2

----------------------------------------------------------------------------
\* A fragment as C12 takes it: no vertex id listed twice, every endpoint of
\* every beam listed as a vertex.
C12_WellFormed(fragment) ==
    /\ \A i, j \in 1..Len(fragment.vertices) :
          fragment.vertices[i].id = fragment.vertices[j].id => i = j
    /\ \A i \in 1..Len(fragment.beams) :
          /\ down_vertex(fragment.beams[i].id) \in
                {fragment.vertices[k].id : k \in 1..Len(fragment.vertices)}
          /\ up_vertex(fragment.beams[i].id) \in
                {fragment.vertices[k].id : k \in 1..Len(fragment.vertices)}

\* The frame is the fragment with its vertex ids renamed by m: the same
\* positions, a beam of the same payload between the renamed endpoints of
\* each beam and no other, each under the canonical id of the renamed pair,
\* and at each vertex the ends that those beam ids place there.
C12_Renamed(fragment, frame, m) ==
    /\ \A v, w \in DOMAIN m : m[v] = m[w] => v = w
    /\ VertexSet(frame) = {<<m[fragment.vertices[i].id],
                              fragment.vertices[i].position>> :
                                i \in 1..Len(fragment.vertices)}
    /\ Len(frame.vertices) = Len(fragment.vertices)
    /\ BeamSet(frame) =
          {<<BeamId_from_vertices(m[down_vertex(fragment.beams[i].id)],
                                  m[up_vertex(fragment.beams[i].id)]),
             fragment.beams[i].data>> : i \in 1..Len(fragment.beams)}
    /\ \A b \in Keys(frame.beams) : down_vertex(b) < up_vertex(b)
    /\ \A id \in Keys(frame.vertices) :
          SeqSet(Connections(frame, id)) = EndsAt(frame, id)

(* C12: remap preserves topology.  For every fragment whose vertex ids are *)
(* distinct and whose beam endpoints are all listed as vertices, map_frame *)
(* returns a frame that is the fragment under one injective renaming m of  *)
(* its vertex ids: a vertex m(v) at the position of v for each vertex v, a *)
(* beam of the same payload between m(a) and m(b) exactly when the         *)
(* fragment has a beam between a and b, each beam id the canonical id of   *)
(* the renamed pair, and connections of the matching direction.            *)
C12_RemapPreservesTopology ==
    (variant = "mapframe" /\ rlast.op = "map_frame"
        /\ C12_WellFormed(remap.fragment)) =>
       /\ rlast.res = Ok
       /\ \E m \in [FragmentIds(remap.fragment) -> SeqSet(issued)] :
             C12_Renamed(remap.fragment, remap.frame, m)

----------------------------------------------------------------------------
\* A split_vertex call whose predicate selects some, but not all, of the
\* connections of a live vertex.
C13_ProperSplit ==
    /\ variant = "frame"
    /\ flast'.op = "split_vertex"
    /\ Unwrap(flast'.a) \in DOMAIN fg.vertices
    /\ flast'.selected # {}
    /\ flast'.selected # ConnectionSet(fg, Unwrap(flast'.a))

\* What C13 says of the call that splits vertex_id into itself and new_id.
C13_Split(vertex_id, selected, new_id) ==
    /\ new_id \notin DOMAIN fg.vertices
    /\ new_id \in DOMAIN fg'.vertices
    /\ fg'.vertices[new_id].position = fg.vertices[vertex_id].position
    /\ ConnectionSet(fg', new_id) = selected
    /\ Len(fg'.vertices[new_id].connections) = Cardinality(selected)
    /\ ConnectionSet(fg', vertex_id)
          = ConnectionSet(fg, vertex_id) \ selected
    /\ DOMAIN fg'.beams = DOMAIN fg.beams
    /\ \A b \in DOMAIN fg.beams : \A end \in {Up, Down} :
          beam_get_vertex(fg'.beams[b], end) =
             IF FrameBeamEnd(b, end) \in selected
             THEN new_id
             ELSE beam_get_vertex(fg.beams[b], end)

(* C13: split_vertex, when the predicate selects at least one but not all  *)
(* of the vertex's connections, creates a new vertex at the same position  *)
(* whose connections are exactly the selected ones, leaves the original    *)
(* vertex with exactly the unselected ones, and rewrites the stored        *)
(* endpoint, up or down as the connection says, of every moved beam to the *)
(* new vertex id, changing no other beam endpoint.                         *)
C13_SplitRewritesEndpoints ==
    [][C13_ProperSplit =>
          /\ flast'.res = "Some(Some)"
          /\ flast'.ret # None
          /\ C13_Split(Unwrap(flast'.a), flast'.selected, flast'.ret[1])]_vars

----------------------------------------------------------------------------
\* A merge_vertices call on two distinct live vertices.
C14_ProperMerge ==
    /\ variant = "frame"
    /\ flast'.op = "merge_vertices"
    /\ Unwrap(flast'.a) \in DOMAIN fg.vertices
    /\ Unwrap(flast'.b) \in DOMAIN fg.vertices
    /\ flast'.a # flast'.b

\* What C14 says of the call that merges `from` into `into`.
C14_Merged(from, into) ==
    /\ DOMAIN fg'.vertices = DOMAIN fg.vertices \ {from}
    /\ fg'.vertices[into].connections
          = fg.vertices[into].connections \o fg.vertices[from].connections
    /\ fg'.vertices[into].position = fg.vertices[into].position
    /\ \A v \in DOMAIN fg'.vertices \ {into} : fg'.vertices[v] = fg.vertices[v]
    /\ DOMAIN fg'.beams = DOMAIN fg.beams
    /\ \A b \in DOMAIN fg.beams : \A end \in {Up, Down} :
          beam_get_vertex(fg'.beams[b], end) =
             IF FrameBeamEnd(b, end) \in ConnectionSet(fg, from)
             THEN into
             ELSE beam_get_vertex(fg.beams[b], end)

(* C14: merge_vertices(from, into) on two distinct existing vertices       *)
(* removes from from the vertex table, leaves into with its former         *)
(* connections followed by those of from, sets to into the stored          *)
(* endpoint, in the connection's direction, of every beam that was         *)
(* connected to from, changes no other beam endpoint and no other vertex,  *)
(* and returns the into vertex.                                            *)
C14_MergeMovesConnections ==
    [][C14_ProperMerge =>
          /\ flast'.res = "Some"
          /\ flast'.ret = flast'.b
          /\ C14_Merged(Unwrap(flast'.a), Unwrap(flast'.b))]_vars

\* An endpoint of one beam was merged into an endpoint of another: two
\* beams now meet at the into vertex, which lists its own beam first.
C14_Witness ==
    /\ variant = "frame"
    /\ flast.op = "merge_vertices"
    /\ flast.res = "Some"
    /\ Cardinality(DOMAIN fg.beams) = 2
    /\ Cardinality(DOMAIN fg.vertices) = 3
    /\ Len(fg.vertices[Unwrap(flast.b)].connections) = 2
    /\ fg.vertices[Unwrap(flast.b)].connections[1].beam
          # fg.vertices[Unwrap(flast.b)].connections[2].beam

----------------------------------------------------------------------------
(* C15: allocator uniqueness.  Over any sequence of calls of               *)
(* FrameIdWorld::next on one allocator, made directly or through           *)
(* new_from_beam, add_beam_extend and map_frame, each VertexId returned is *)
(* strictly greater than every id returned earlier: no id is issued twice. *)
C15_IssuedIdsIncrease ==
    variant = "remap" =>
       \A i, j \in 1..Len(issued) : i < j => issued[i] < issued[j]

\* The allocator served new_from_beam, then add_beam_extend, then a
\* map_frame call.
C15_Witness ==
    /\ variant = "remap"
    /\ Len(issued) = 4
    /\ server # None
    /\ Len(Unwrap(server).vertices) = 3
    /\ rlast.op = "map_frame"
    /\ rlast.res = Ok
    /\ Len(remap.frame.vertices) = 1

----------------------------------------------------------------------------
\* The vertex ids in the vertex list of a snapshot.
ListedIds(serialized) ==
    {serialized.vertices[i].id : i \in 1..Len(serialized.vertices)}

(* C16: converting a SerializedGraph into a Graph fails whenever some beam *)
(* of the snapshot has a down or up vertex id that is not in the           *)
(* snapshot's vertex list.                                                 *)
C16_UnlistedEndpointFails ==
    (variant = "convert" /\ last.op = "from_serialized"
        /\ \E i \in 1..Len(Unwrap(snapshot).beams) :
              \/ down_vertex(Unwrap(snapshot).beams[i].id)
                    \notin ListedIds(Unwrap(snapshot))
              \/ up_vertex(Unwrap(snapshot).beams[i].id)
                    \notin ListedIds(Unwrap(snapshot)))
    => last.res = PanicInvalidSnapshot

\* The conversion failed at the second beam of a snapshot, the up vertex
\* of which is not listed, after taking the first.
C16_Witness ==
    /\ variant = "convert"
    /\ last.op = "from_serialized"
    /\ last.res = PanicInvalidSnapshot
    /\ Len(Unwrap(snapshot).beams) = 2
    /\ Len(Unwrap(restored).beams) = 1
    /\ down_vertex(Unwrap(snapshot).beams[2].id) \in ListedIds(Unwrap(snapshot))
    /\ up_vertex(Unwrap(snapshot).beams[2].id) \notin ListedIds(Unwrap(snapshot))

----------------------------------------------------------------------------
\* remove_beam took a beam out and deleted at least one of its endpoints,
\* and try_split is now run on the two former endpoints of that beam.
C17_SplitOfDeletedEndpoint ==
    /\ variant = "split"
    /\ flast.op = "remove_beam"
    /\ flast.res = "true"
    /\ \/ flast.ret[1] \notin DOMAIN fg.vertices
       \/ flast.ret[2] \notin DOMAIN fg.vertices
    /\ flast'.op = "try_split"
    /\ {Unwrap(flast'.a), Unwrap(flast'.b)}
          = {flast.ret[1], flast.ret[2]}

----------------------------------------------------------------------------
(* C18: in the arena FrameGraph, after any sequence of create_beam,        *)
(* remove_beam, merge_vertices and split_vertex calls, the vertex stored   *)
(* as the up (down) end of every beam exists and lists the beam with Up    *)
(* (Down), every connection in a vertex's list names an existing beam      *)
(* whose stored endpoint in that direction is the vertex, and remove_beam  *)
(* on an existing beam never stops at 'Vertex should contain a connection  *)
(* to the beam'.                                                           *)
C18_ArenaConsistent ==
    variant = "frame" =>
       /\ Productive(flast) => FrameWellFormed(fg)
       /\ ~(flast.op = "remove_beam" /\ flast.res = PanicVertexConnection)

----------------------------------------------------------------------------
(* C19: no self-loop.  After any sequence of create_beam, remove_beam,     *)
(* merge_vertices and split_vertex calls on a FrameGraph, the up vertex    *)
(* stored for every beam differs from its down vertex, also after          *)
(* merge_vertices was called on the two endpoints of one beam.             *)
C19_NoSelfLoop ==
    (variant = "frame" /\ Productive(flast)) =>
       \A b \in DOMAIN fg.beams : fg.beams[b].up # fg.beams[b].down

----------------------------------------------------------------------------
(* C20: rejection is atomic.  Whenever Graph::add_beam fails (identical    *)
(* endpoints, duplicate vertex, missing vertex, beam already present) the  *)
(* vertex table, with every position and connection list, and the beam     *)
(* table, with its payloads, are what they were before the call.           *)
C20_RejectionIsAtomic ==
    [][(variant = "graph" /\ last'.op = "add_beam" /\ last'.res # Ok) =>
          graph' = graph]_vars

----------------------------------------------------------------------------
\* How many items of the heap are for vertex_id.
Queued(heap, vertex_id) ==
    Cardinality({i \in 1..Len(heap) : heap[i].vertex_id = vertex_id})

\* The best cost recorded for vertex_id, infinity when there is none.
BestCost(best_costs, vertex_id) ==
    IF vertex_id \in DOMAIN best_costs THEN best_costs[vertex_id]
    ELSE F32_MAX

\* In this turn of the loop a vertex gets a new item on the heap only with
\* a path cost strictly below the best recorded for it.
C21_PushOnlyLower ==
    \A v \in DOMAIN fg.vertices :
       (/\ search.heap # <<>>
        /\ Queued(search'.heap, v) > Queued(Tail(search.heap), v))
          => BestCost(search'.best_costs, v) < BestCost(search.best_costs, v)

(* C21: the search of try_split terminates.  On every frame graph (with   *)
(* cycles, parallel beams, zero-length beams) and every pair of valid      *)
(* start and end vertices the main loop eventually pops the end vertex or  *)
(* finds the frontier empty, and a vertex is pushed again only when a      *)
(* strictly lower path cost to it was found.                               *)
C21_SearchTerminates ==
    /\ (variant = "search") => <>(search.status \in {"found", "exhausted"})
    /\ [][variant = "search" => C21_PushOnlyLower]_vars

\* On the square, which has a cycle and a beam of length zero, the loop is
\* at a turn where the heap holds two items for one vertex: it was pushed,
\* and pushed again when a path of lower cost to it was found.
C21_Witness ==
    /\ variant = "search"
    /\ search.status = "running"
    /\ Cardinality(DOMAIN fg.beams) = 5
    /\ \E b \in DOMAIN fg.beams :
          fg.vertices[fg.beams[b].up].position
             = fg.vertices[fg.beams[b].down].position
    /\ \E i, j \in 1..Len(search.heap) :
          /\ search.heap[i].vertex_id = search.heap[j].vertex_id
          /\ search.heap[i].cost < search.heap[j].cost
          /\ search.best_costs[search.heap[i].vertex_id] = search.heap[i].cost

----------------------------------------------------------------------------
(* C22: the frontier of try_split is a min-priority queue.  At every turn  *)
(* of the search loop the item at the front of the heap, the one the turn  *)
(* takes, has the smallest priority f of all the items in the frontier,    *)
(* whatever pushes and pops came before.                                   *)
C22_FrontIsSmallest ==
    (variant = "search" /\ search.status = "running") =>
       \A i \in 1..Len(search.heap) : search.heap[1].f <= search.heap[i].f

----------------------------------------------------------------------------
\* A try_split call with a start or end vertex id that is not in the graph.
C23_InvalidArgument ==
    /\ variant = "frame"
    /\ flast'.op = "try_split"
    /\ \/ Unwrap(flast'.a) \notin DOMAIN fg.vertices
       \/ Unwrap(flast'.b) \notin DOMAIN fg.vertices

----------------------------------------------------------------------------
\* A split_vertex call that splits nothing: the vertex id is not in the
\* graph, or the predicate selects none, or all, of its connections.
C24_NoSplit ==
    /\ variant = "frame"
    /\ flast'.op = "split_vertex"
    /\ \/ Unwrap(flast'.a) \notin DOMAIN fg.vertices
       \/ flast'.selected = {}
       \/ flast'.selected = ConnectionSet(fg, Unwrap(flast'.a))

(* C24: the no-op cases of split_vertex.  With an invalid vertex id the    *)
(* call returns None; when the predicate selects none of the vertex's      *)
(* connections, Some(None); when it selects all of them, Some(Some(the     *)
(* same vertex id)).  In the three cases no vertex is created and the      *)
(* vertex table, every connection list with its order, and every beam      *)
(* endpoint are unchanged.                                                 *)
C24_NoSplitChangesNothing ==
    [][C24_NoSplit =>
          /\ fg' = fg
          /\ IF Unwrap(flast'.a) \notin DOMAIN fg.vertices
             THEN flast'.res = "None"
             ELSE IF flast'.selected = {}
             THEN flast'.res = "Some(None)"
             ELSE /\ flast'.res = "Some(Some)"
                  /\ flast'.ret = flast'.a]_vars

\* split_vertex selected both connections of a vertex that joins two beams
\* and returned the vertex itself.
C24_Witness ==
    /\ variant = "frame"
    /\ flast.op = "split_vertex"
    /\ flast.res = "Some(Some)"
    /\ flast.ret = flast.a
    /\ Cardinality(flast.selected) = 2
    /\ Len(fg.vertices[Unwrap(flast.a)].connections) = 2

----------------------------------------------------------------------------
\* The invariants of a Graph: no vertex without connections, no beam from
\* a vertex to itself, every id once, and connection lists that match the
\* beams ending at the vertex.
C25_GraphInvariants(g) ==
    /\ \A i \in 1..Len(g.vertices) : g.vertices[i].connections # <<>>
    /\ \A b \in Keys(g.beams) : down_vertex(b) # up_vertex(b)
    /\ Cardinality(Keys(g.vertices)) = Len(g.vertices)
    /\ Cardinality(Keys(g.beams)) = Len(g.beams)
    /\ \A b \in Keys(g.beams) :
          /\ down_vertex(b) \in Keys(g.vertices)
          /\ up_vertex(b) \in Keys(g.vertices)
    /\ \A id \in Keys(g.vertices) :
          /\ SeqSet(Connections(g, id)) = EndsAt(g, id)
          /\ Len(Connections(g, id)) = Cardinality(EndsAt(g, id))

\* A snapshot that lists a vertex touched by no beam, or the same vertex
\* or the same beam twice.
C25_Unusable(serialized) ==
    \/ \E i \in 1..Len(serialized.vertices) :
          \A j \in 1..Len(serialized.beams) :
             /\ down_vertex(serialized.beams[j].id) # serialized.vertices[i].id
             /\ up_vertex(serialized.beams[j].id) # serialized.vertices[i].id
    \/ \E i, j \in 1..Len(serialized.vertices) :
          i # j /\ serialized.vertices[i].id = serialized.vertices[j].id
    \/ \E i, j \in 1..Len(serialized.beams) :
          i # j /\ serialized.beams[i].id = serialized.beams[j].id

(* C25: every Graph produced from a SerializedGraph without failure       *)
(* satisfies the graph invariants (no vertex with an empty connection      *)
(* list, no beam from a vertex to itself, each vertex id and beam id once, *)
(* connection lists matching the beams that end at the vertex), and a      *)
(* snapshot that cannot yield such a graph (a vertex touched by no beam,   *)
(* the same beam listed twice) is rejected.                                *)
C25_RestoredGraphIsSound ==
    (variant = "convert" /\ last.op = "from_serialized") =>
       /\ last.res = Ok => C25_GraphInvariants(Unwrap(restored))
       /\ C25_Unusable(Unwrap(snapshot)) => last.res # Ok

====
